---- MODULE Spec2Model ----
(***************************************************************************)
(* Geometric (Clifford) algebra G_n: the direct bit-parity engine of       *)
(* src/src/Multivector.py and the tabulated engine of src/GAlgebra_Jake.py.*)
(* Blade indices are little-endian bitmasks; coefficient arrays are        *)
(* modelled as 0-based functions 0..len-1 -> Int (integers are exact in    *)
(* float64 within the ranges used here).                                   *)
(***************************************************************************)
EXTENDS Integers, Naturals, Sequences, FiniteSets, TLC

\* ------------------------------------------------------------------ bounds
\* Largest dimension n of the multivector-level specifications.
MaxN == 3
\* Largest dimension n of the blade-index specification (indices < 2^MaxBits).
MaxBits == 9
\* Largest dimension n of the blade-sign specification.
MaxBladeN == 5
\* Objects a session creates at most.
MaxObjs == 4
\* Largest magnitude of a coefficient a session computes with (the program's
\* coefficients are floats; the model's are integers).
MaxCoef == 1000

\* ------------------------------------------------------- integer helpers
\* int.bit_length(): the number of bits needed to represent a non-negative int.
bit_length_rec[y \in Nat] == IF y = 0 THEN 0 ELSE 1 + bit_length_rec[y \div 2]

bit_length(x) == bit_length_rec[x]

\* Python's x ^ y on non-negative ints: bit by bit, 1 where the bits differ.
BitXor_rec[u \in Nat, v \in Nat] ==
    IF u = 0 THEN v
    ELSE IF v = 0 THEN u
    ELSE (((u % 2) + (v % 2)) % 2) + 2 * BitXor_rec[u \div 2, v \div 2]

BitXor(x, y) == BitXor_rec[x, y]

\* int.to_bytes(length, byteorder='little'): least significant byte first.
to_bytes_little(x, length) == [k \in 1..length |-> (x \div (256 ^ (k - 1))) % 256]

\* int.from_bytes(bytes, byteorder='big'): the first byte is the most significant.
from_bytes_big_rec[bytes \in Seq(0..255)] ==
    IF Len(bytes) = 0 THEN 0
    ELSE bytes[Len(bytes)] + 256 * from_bytes_big_rec[SubSeq(bytes, 1, Len(bytes) - 1)]

from_bytes_big(bytes) == from_bytes_big_rec[bytes]

\* int.from_bytes(bytes, byteorder='little'): the first byte is the least significant.
from_bytes_little_rec[bytes \in Seq(0..255)] ==
    IF Len(bytes) = 0 THEN 0
    ELSE bytes[1] + 256 * from_bytes_little_rec[Tail(bytes)]

from_bytes_little(bytes) == from_bytes_little_rec[bytes]

\* _compute_output_index reading the bytes back in the other byte order.
_compute_output_index_bigendian(idx_1, idx_2) ==
    LET result == BitXor(idx_1, idx_2)
        result_bytes == to_bytes_little(result, (bit_length(result) + 7) \div 8)
    IN  from_bytes_big(result_bytes)

\* _compute_output_index(idx_1, idx_2): XOR, then a little-endian byte round trip.
_compute_output_index(idx_1, idx_2) ==
    LET result == BitXor(idx_1, idx_2)
        result_bytes == to_bytes_little(result, (bit_length(result) + 7) \div 8)
    IN  from_bytes_little(result_bytes)

\* ------------------------------------------------------ sign of a product
\* bin(x)[2:]: the binary digits of x, most significant first ("0" for 0).
bin(x) ==
    LET L == IF x = 0 THEN 1 ELSE bit_length(x)
    IN  [k \in 1..L |-> IF (x \div (2 ^ (L - k))) % 2 = 1 THEN "1" ELSE "0"]

\* s[::-1]
reversed(s) == [k \in 1..Len(s) |-> s[Len(s) + 1 - k]]

\* [i for i, bit in enumerate(bitstring) if bit == '1'], from 0-based position
\* i onward: the positions of the '1' characters, in the order met.
nonzero_idxes_rec[bitstring \in Seq({"0", "1"}), i \in Nat] ==
    IF i >= Len(bitstring) THEN << >>
    ELSE IF bitstring[i + 1] = "1"
         THEN << i >> \o nonzero_idxes_rec[bitstring, i + 1]
         ELSE nonzero_idxes_rec[bitstring, i + 1]

nonzero_idxes(bitstring) == nonzero_idxes_rec[bitstring, 0]

\* Binary search on the 0-based range [lo, hi) of arr (1-based here) for the
\* first position whose element is >= v.
searchsorted_left_rec[arr \in Seq(Int), v \in Int, lo \in Nat, hi \in Nat] ==
    IF lo >= hi THEN lo
    ELSE LET mid == lo + ((hi - lo) \div 2)
         IN  IF v <= arr[mid + 1]
             THEN searchsorted_left_rec[arr, v, lo, mid]
             ELSE searchsorted_left_rec[arr, v, mid + 1, hi]

\* Binary search for the first position whose element is > v.
searchsorted_right_rec[arr \in Seq(Int), v \in Int, lo \in Nat, hi \in Nat] ==
    IF lo >= hi THEN lo
    ELSE LET mid == lo + ((hi - lo) \div 2)
         IN  IF v < arr[mid + 1]
             THEN searchsorted_right_rec[arr, v, lo, mid]
             ELSE searchsorted_right_rec[arr, v, mid + 1, hi]

\* np.searchsorted(arr, v, side='left'): equal elements count as greater.
searchsorted_left(arr, v) == searchsorted_left_rec[arr, v, 0, Len(arr)]

\* np.searchsorted(arr, v, side='right')
searchsorted(arr, v) == searchsorted_right_rec[arr, v, 0, Len(arr)]

\* _compute_num_transpositions(arr_1, arr_2)
num_transpositions_rec[arr_1 \in Seq(Int), arr_2 \in Seq(Int)] ==
    IF Len(arr_2) = 0 THEN 0
    ELSE LET idx == searchsorted(arr_1, arr_2[1])
             num_transpositions == Len(arr_1) - idx
         IN  IF Len(arr_2) # 1
             THEN num_transpositions + num_transpositions_rec[arr_1, Tail(arr_2)]
             ELSE num_transpositions

\* _compute_num_transpositions without its recursive call: only arr_2[0] counted.
_compute_num_transpositions_first_only(arr_1, arr_2) ==
    IF Len(arr_2) = 0 \/ Len(arr_1) = 0 THEN 0
    ELSE Len(arr_1) - searchsorted(arr_1, arr_2[1])

_compute_num_transpositions(arr_1, arr_2) == num_transpositions_rec[arr_1, arr_2]

\* idxes_1 / idxes_2 of _compute_output_parity: the ascending set-bit positions
\* of a blade index.
idxes(idx) == nonzero_idxes(reversed(bin(idx)))

\* _compute_output_parity(idx_1, idx_2)
_compute_output_parity(idx_1, idx_2) ==
    LET idxes_1 == idxes(idx_1)
        idxes_2 == idxes(idx_2)
        transpositions == _compute_num_transpositions(idxes_1, idxes_2)
    IN  IF transpositions % 2 # 0 THEN -1 ELSE 1

\* ------------------------------------------ src/src/Multivector.py values
\* Length of a 0-based array.
size(arr) == Cardinality(DOMAIN arr)

\* _get_zero_basis(k): np.zeros(2**k), a fresh 0-based array of zeros.
_get_zero_basis(k) == [i \in 0..(2 ^ k - 1) |-> 0]

\* MultiVector.__init__(basis_expansion, n): stores both as given, unchecked.
MultiVector(basis_expansion, mv_n) ==
    [cls |-> "MultiVector", basis_expansion |-> basis_expansion, n |-> mv_n]

RECURSIVE from_vector_loop_linear(_, _, _)
\* The loop of from_vector writing empty_basis[i] instead of empty_basis[2**i].
from_vector_loop_linear(vector, i, empty_basis) ==
    IF i >= Len(vector) THEN empty_basis
    ELSE from_vector_loop_linear(vector, i + 1,
                                 [empty_basis EXCEPT ![i] = vector[i + 1]])

RECURSIVE from_vector_loop(_, _, _)
\* for i in range(n): empty_basis[2**i] = vector[i]   (vector is 1-based here)
from_vector_loop(vector, i, empty_basis) ==
    IF i >= Len(vector) THEN empty_basis
    ELSE from_vector_loop(vector, i + 1,
                          [empty_basis EXCEPT ![2 ^ i] = vector[i + 1]])

\* MultiVector.from_vector(vector)
from_vector(vector) ==
    LET vn == Len(vector)
        empty_basis == _get_zero_basis(vn)
    IN  MultiVector(from_vector_loop(vector, 0, empty_basis), vn)

\* numpy's shape rule for x + y on one-dimensional arrays: equal lengths, or
\* one of them of length 1 (which is then broadcast).
np_broadcastable(x, y) == size(x) = size(y) \/ size(x) = 1 \/ size(y) = 1

\* x + y for two broadcastable one-dimensional arrays.
np_add(x, y) ==
    IF size(x) = size(y) THEN [i \in DOMAIN x |-> x[i] + y[i]]
    ELSE IF size(x) = 1 THEN [i \in DOMAIN y |-> x[0] + y[i]]
    ELSE [i \in DOMAIN x |-> x[i] + y[0]]

\* The value MultiVector.add returns once its assert passed.
add_value(self, other) ==
    MultiVector(np_add(self.basis_expansion, other.basis_expansion), self.n)

\* The calls _compute_output_index(i, j) and _compute_output_parity(i, j) of the
\* product loop, tabulated per pair of blade indices (both functions are pure:
\* every call with the same pair returns the same).
output_index_calls ==
    [i \in 0..(2 ^ MaxN - 1) |->
        [j \in 0..(2 ^ MaxN - 1) |-> _compute_output_index(i, j)]]

output_parity_calls ==
    [i \in 0..(2 ^ MaxN - 1) |->
        [j \in 0..(2 ^ MaxN - 1) |-> _compute_output_parity(i, j)]]

RECURSIVE geometric_product_inner_self(_, _, _, _, _)
\* The inner loop reading self.basis_expansion[j] where it should read other's.
geometric_product_inner_self(self, other, i, j, out_basis) ==
    IF j >= 2 ^ self.n THEN out_basis
    ELSE IF output_index_calls[i][j] \notin DOMAIN out_basis THEN out_basis
    ELSE geometric_product_inner_self(self, other, i, j + 1,
            [out_basis EXCEPT ![output_index_calls[i][j]] =
                @ + self.basis_expansion[i] * self.basis_expansion[j]
                      * output_parity_calls[i][j]])

RECURSIVE geometric_product_inner(_, _, _, _, _)
\* for j in range(2 ** self.n): out_basis[output_idx] += ...   (from j onward).
\* output_idx is below 2 ** self.n, the length of out_basis, so the indexing
\* never fails; the loop is cut short if it ever did.
geometric_product_inner(self, other, i, j, out_basis) ==
    IF j >= 2 ^ self.n THEN out_basis
    ELSE IF output_index_calls[i][j] \notin DOMAIN out_basis THEN out_basis
    ELSE geometric_product_inner(self, other, i, j + 1,
            [out_basis EXCEPT ![output_index_calls[i][j]] =
                @ + self.basis_expansion[i] * other.basis_expansion[j]
                      * output_parity_calls[i][j]])

RECURSIVE geometric_product_outer(_, _, _, _)
\* for i in range(2 ** self.n): ...   (from i onward)
geometric_product_outer(self, other, i, out_basis) ==
    IF i >= 2 ^ self.n THEN out_basis
    ELSE geometric_product_outer(self, other, i + 1,
            geometric_product_inner(self, other, i, 0, out_basis))

\* The value MultiVector.geometric_product returns once its assert passed.
geometric_product_value(self, other) ==
    MultiVector(geometric_product_outer(self, other, 0, _get_zero_basis(self.n)), self.n)

\* MultiVector.__eq__
mv_eq(self, other) == self.n = other.n /\ self.basis_expansion = other.basis_expansion

\* other * self.values with other a number (numpy scalar multiplication).
np_scale(values, number) == [i \in DOMAIN values |-> number * values[i]]

\* ------------------------------------------------- src/GAlgebra_Jake.py
\* Strings are sequences of one-character strings. The float table where_m is
\* kept in units of epsilon (1e-7), which makes every entry an integer: the
\* sentinel s*epsilon is s, and s*index is s * index * EpsilonInv.

\* 1 / epsilon, for the default epsilon=1.e-7 of GN.__init__.
EpsilonInv == 10000000
\* atol=epsilon*10 of the np.isclose call in prod, in units of epsilon.
AtolUnits == 10
\* rtol / epsilon for np.isclose's default rtol=1e-05 in the same call.
RtolUnits == 100
\* MultiVector.__init__ refuses gn >= 10.
TooLarge == 10

DigitChars == << "0", "1", "2", "3", "4", "5", "6", "7", "8", "9" >>

\* str(k) for k >= 0: the decimal digits.
str_rec[k \in Nat] ==
    IF k < 10 THEN << DigitChars[k + 1] >>
    ELSE str_rec[k \div 10] \o << DigitChars[(k % 10) + 1] >>

py_str(k) == str_rec[k]

\* int(ch) for a one-digit string.
py_int(ch) == (CHOOSE d \in 1..10 : DigitChars[d] = ch) - 1

\* itertools.combinations over the positions lo..hi, r at a time, in
\* lexicographic order.
combinations_rec[lo \in Nat, hi \in Nat, r \in Nat] ==
    IF r = 0 THEN << << >> >>
    ELSE IF hi - lo + 1 < r THEN << >>
    ELSE LET with_lo == combinations_rec[lo + 1, hi, r - 1]
         IN  [k \in 1..Len(with_lo) |-> << lo >> \o with_lo[k]]
                 \o combinations_rec[lo + 1, hi, r]

\* more_itertools.powerset of m items: the combinations of size r, r + 1, ..., m.
powerset_rec[m \in Nat, r \in Nat] ==
    IF r > m THEN << >>
    ELSE combinations_rec[1, m, r] \o powerset_rec[m, r + 1]

ps(m) == powerset_rec[m, 0]

\* ''.join('e' + str(j) for j in labels)
join_rec[labels \in Seq(Nat)] ==
    IF Len(labels) = 0 THEN << >>
    ELSE (<< "e" >> \o py_str(labels[1])) \o join_rec[Tail(labels)]

join_labels(labels) == join_rec[labels]

\* The blade label '1'.
ONE == << "1" >>

\* GN.canonical_basis: '1', then the joined non-empty subsets of e1..en in
\* powerset order (by size, then lexicographically).
canonical_basis(gn_n) ==
    LET subsets == ps(gn_n)
    IN  << ONE >> \o [k \in 1..(Len(subsets) - 1) |-> join_labels(subsets[k + 1])]

\* list.index(x): 0-based position of the first occurrence, -1 standing for the
\* ValueError of an absent x.
list_index(list, x) ==
    IF \E k \in 1..Len(list) : list[k] = x
    THEN (CHOOSE k \in 1..Len(list) :
              list[k] = x /\ \A k2 \in 1..(k - 1) : list[k2] # x) - 1
    ELSE -1

\* [int(i) for i in b[1::2]]: the digits at the odd 0-based positions.
label_numbers(blade) == [k \in 1..(Len(blade) \div 2) |-> py_int(blade[2 * k])]

\* The loop of basis_mult from position ind of l1 on: the swaps it adds.
swaps_rec[l1 \in Seq(Nat), l2 \in Seq(Nat), ind \in Nat, matches \in Nat] ==
    IF ind >= Len(l1) THEN 0
    ELSE IF \E k \in 1..Len(l2) : l2[k] = l1[ind + 1]
         THEN ((Len(l1) - 1) - ind) + (list_index(l2, l1[ind + 1]) - matches)
                  + swaps_rec[l1, l2, ind + 1, matches + 1]
         ELSE swaps_rec[l1, l2, ind + 1, matches]

\* Iteration over a Python set of small non-negative ints (hash order, which is
\* ascending for ints below the table size).
set_iter_rec[T \in SUBSET Nat] ==
    IF T = {} THEN << >>
    ELSE LET m == CHOOSE x \in T : \A y \in T : x <= y
         IN  << m >> \o set_iter_rec[T \ {m}]

set_iter(T) == set_iter_rec[T]

\* GN.basis_mult(b1, b2): the label of the product blade and its sign.
basis_mult(b1, b2) ==
    IF b1 = ONE THEN [label |-> b2, sign |-> 1]
    ELSE IF b2 = ONE THEN [label |-> b1, sign |-> 1]
    ELSE LET l1 == label_numbers(b1)
             l2 == label_numbers(b2)
             set1 == {l1[k] : k \in 1..Len(l1)}
             set2 == {l2[k] : k \in 1..Len(l2)}
             lr == (set1 \ set2) \cup (set2 \ set1)
             swaps == swaps_rec[l1, l2, 0, 0]
             sgn == IF swaps % 2 = 0 THEN 1 ELSE -1
         IN  IF Cardinality(lr) = 0
             THEN [label |-> ONE, sign |-> sgn]
             ELSE [label |-> join_labels(set_iter(lr)), sign |-> sgn]

\* One entry of where_m, as GN.__init__ computes it.
where_m_entry(basis, b1, b2) ==
    LET res == basis_mult(b1, b2)
    IN  IF res.label = ONE THEN res.sign
        ELSE res.sign * list_index(basis, res.label) * EpsilonInv

\* GN.__init__(n): the algebra object.
GN(gn_n) ==
    LET basis == canonical_basis(gn_n)
    IN  [cls |-> "GN", n |-> gn_n, canonical_basis |-> basis,
         where_m |-> [i \in 0..(2 ^ gn_n - 1) |->
                        [j \in 0..(2 ^ gn_n - 1) |->
                            where_m_entry(basis, basis[i + 1], basis[j + 1])]]]

\* canonical_basis.index(br) raising ValueError inside GN.__init__.
GN_raises(gn_n) ==
    LET basis == canonical_basis(gn_n)
    IN  \E i \in 1..Len(basis), j \in 1..Len(basis) :
            LET res == basis_mult(basis[i], basis[j])
            IN  res.label # ONE /\ list_index(basis, res.label) = -1

\* GN.__eq__ between two algebras.
GN_eq(gn1, gn2) == gn1.n = gn2.n

Abs(x) == IF x < 0 THEN -x ELSE x

\* np.sign
np_sign(x) == IF x < 0 THEN -1 ELSE IF x > 0 THEN 1 ELSE 0

\* np.isclose(abs(w), i, atol=epsilon*10): |abs(w) - i| <= atol + rtol * |i|,
\* with w in units of epsilon.
isclose(w, i) == Abs(Abs(w) - i * EpsilonInv) <= AtolUnits + RtolUnits * i

\* np.sum(np.where(isclose(abs(where_m), k), sign(where_m) * outer(v1, v2), 0))
masked_sum(where_m, v1, v2, size_, k) ==
    LET term(i, j) ==
            IF isclose(where_m[i][j], k)
            THEN np_sign(where_m[i][j]) * (v1[i] * v2[j]) ELSE 0
        row[i \in 0..(size_ - 1), j \in 0..size_] ==
            IF j = 0 THEN 0 ELSE row[i, j - 1] + term(i, j - 1)
        total[i \in 0..size_] ==
            IF i = 0 THEN 0 ELSE total[i - 1] + row[i - 1, size_]
    IN  total[size_]

\* The list nv of MultiVector.prod (GAlgebra_Jake.py).
prod_values(gn, v1, v2) ==
    [k \in 0..(2 ^ gn.n - 1) |-> masked_sum(gn.where_m, v1, v2, 2 ^ gn.n, k)]

\* ----------------------------------------------------- objects and calls
\* Objects live in a heap, a sequence of records; a reference is a position in
\* it. A call takes the heap and returns the heap it leaves, the reference it
\* returns and the exception it raises.

\* Python's None.
None == "None"

Returned(heap, ref) == [objs |-> heap, ret |-> ref, err |-> None]

Raised(heap, exception) == [objs |-> heap, ret |-> None, err |-> exception]

\* A constructor that ran to its end: the new object is appended.
New(heap, obj) == Returned(Append(heap, obj), Len(heap) + 1)

\* MultiVector(basis_expansion, n) of Multivector.py: no check of any kind.
MultiVector_init(heap, basis_expansion, mv_n) ==
    New(heap, MultiVector(basis_expansion, mv_n))

\* MultiVector.from_vector(vector)
MultiVector_from_vector(heap, vector) == New(heap, from_vector(vector))

\* self.add(other) without the assert on the dimensions.
MultiVector_add_unchecked(heap, self, other) ==
    IF ~np_broadcastable(heap[self].basis_expansion, heap[other].basis_expansion)
    THEN Raised(heap, "ValueError")
    ELSE New(heap, add_value(heap[self], heap[other]))

\* self.add(other) accumulating into self (self.basis_expansion += ...; return self).
MultiVector_add_inplace(heap, self, other) ==
    IF heap[self].n # heap[other].n THEN Raised(heap, "AssertionError")
    ELSE IF ~np_broadcastable(heap[self].basis_expansion, heap[other].basis_expansion)
    THEN Raised(heap, "ValueError")
    ELSE Returned([heap EXCEPT ![self] = add_value(heap[self], heap[other])], self)

\* self.add(other)
MultiVector_add(heap, self, other) ==
    IF heap[self].n # heap[other].n THEN Raised(heap, "AssertionError")
    ELSE IF ~np_broadcastable(heap[self].basis_expansion, heap[other].basis_expansion)
    THEN Raised(heap, "ValueError")
    ELSE New(heap, add_value(heap[self], heap[other]))

\* self.geometric_product(other): the loops read positions 0 .. 2**n - 1 of
\* both arrays, an IndexError when one of them is shorter.
MultiVector_geometric_product(heap, self, other) ==
    IF heap[self].n # heap[other].n THEN Raised(heap, "AssertionError")
    ELSE IF \/ size(heap[self].basis_expansion) < 2 ^ heap[self].n
            \/ size(heap[other].basis_expansion) < 2 ^ heap[self].n
    THEN Raised(heap, "IndexError")
    ELSE New(heap, geometric_product_value(heap[self], heap[other]))

\* GN(n), tabulated per n (the construction depends on n alone).
GN_calls == [k \in 0..MaxN |-> GN(k)]

GN_raises_calls == [k \in 0..MaxN |-> GN_raises(k)]

\* GN(n)
GN_init(heap, gn_n) ==
    IF GN_raises_calls[gn_n] THEN Raised(heap, "ValueError")
    ELSE New(heap, GN_calls[gn_n])

\* MultiVector(gn, values) of GAlgebra_Jake.py, values a list or an array; gn
\* is a reference to the algebra.
GA_MultiVector_init(heap, gn, values) ==
    IF heap[gn].n >= TooLarge THEN Raised(heap, "ValueError")
    ELSE IF size(values) # 2 ^ heap[gn].n THEN Raised(heap, "ValueError")
    ELSE New(heap, [cls |-> "GA.MultiVector", gn |-> gn, values |-> values])

\* self * other, other a number
GA_MultiVector_mul(heap, self, number) ==
    GA_MultiVector_init(heap, heap[self].gn, np_scale(heap[self].values, number))

\* mv1.sum(mv2)
GA_MultiVector_sum(heap, mv1, mv2) ==
    IF ~GN_eq(heap[heap[mv1].gn], heap[heap[mv2].gn]) THEN Raised(heap, "ValueError")
    ELSE GA_MultiVector_init(heap, heap[mv1].gn, np_add(heap[mv1].values, heap[mv2].values))

\* mv1.prod(mv2)
GA_MultiVector_prod(heap, mv1, mv2) ==
    IF ~GN_eq(heap[heap[mv1].gn], heap[heap[mv2].gn]) THEN Raised(heap, "ValueError")
    ELSE GA_MultiVector_init(heap, heap[mv1].gn,
             prod_values(heap[heap[mv1].gn], heap[mv1].values, heap[mv2].values))

\* ------------------------------------------------------------------ state
VARIABLES
    pc,                 \* what the program did last
    dim,                \* n, the dimension of the algebra in use
    blade_i, blade_j,   \* blade indices handed to the blade-level functions
    ret_index,          \* value returned by _compute_output_index
    ret_parity,         \* value returned by _compute_output_parity
    ret_transpositions, \* value returned by _compute_num_transpositions
    vec_a, vec_b,       \* vectors of R^n handed to from_vector
    mv_a, mv_b, mv_c,   \* operand multivectors of a computation
    scalar,             \* scalar operand
    lhs, rhs,           \* the two multivectors a computation produced
    objs,               \* the heap of a session: every object created so far
    args,               \* the arguments of the session's last call
    ret,                \* the reference the last call returned, or None
    err                 \* the exception the last call raised, or None

vars == << pc, dim, blade_i, blade_j, ret_index, ret_parity, ret_transpositions,
           vec_a, vec_b, mv_a, mv_b, mv_c, scalar, lhs, rhs, objs, args, ret, err >>

bladeVars == << blade_i, blade_j, ret_index, ret_parity, ret_transpositions >>
algVars == << vec_a, vec_b, mv_a, mv_b, mv_c, scalar, lhs, rhs >>
sessionVars == << objs, args, ret, err >>

NoBlade ==
    /\ blade_i = None /\ blade_j = None
    /\ ret_index = None /\ ret_parity = None /\ ret_transpositions = None

NoAlg ==
    /\ vec_a = None /\ vec_b = None
    /\ mv_a = None /\ mv_b = None /\ mv_c = None
    /\ scalar = None /\ lhs = None /\ rhs = None

NoSession == objs = None /\ args = None /\ ret = None /\ err = None

\* ------------------------------------------- blade-index specification
\* Every dimension up to MaxBits and every pair of blade indices of it.
InitIndex ==
    /\ pc = "start"
    /\ dim \in 1..MaxBits
    /\ blade_i \in 0..(2 ^ dim - 1)
    /\ blade_j \in 0..(2 ^ dim - 1)
    /\ ret_index = None
    /\ ret_parity = None
    /\ ret_transpositions = None
    /\ NoAlg
    /\ NoSession

\* output_idx = _compute_output_index(i, j)
CallOutputIndex ==
    /\ pc = "start"
    /\ ret_index' = _compute_output_index(blade_i, blade_j)
    /\ pc' = "index"
    /\ UNCHANGED << dim, blade_i, blade_j, ret_parity, ret_transpositions >>
    /\ UNCHANGED algVars
    /\ UNCHANGED sessionVars

NextIndex == CallOutputIndex

SpecIndex == InitIndex /\ [][NextIndex]_vars

\* -------------------------------------------- blade-sign specification
\* Every dimension up to MaxBladeN and every pair of blade indices of it.
InitBlade ==
    /\ pc = "start"
    /\ dim \in 1..MaxBladeN
    /\ blade_i \in 0..(2 ^ dim - 1)
    /\ blade_j \in 0..(2 ^ dim - 1)
    /\ ret_index = None
    /\ ret_parity = None
    /\ ret_transpositions = None
    /\ NoAlg
    /\ NoSession

\* output_parity = _compute_output_parity(i, j); ret_transpositions is the
\* n_transpositions it got from _compute_num_transpositions(idxes_1, idxes_2).
CallOutputParity ==
    /\ pc = "start"
    /\ ret_transpositions' = _compute_num_transpositions(idxes(blade_i), idxes(blade_j))
    /\ ret_parity' = _compute_output_parity(blade_i, blade_j)
    /\ pc' = "parity"
    /\ UNCHANGED << dim, blade_i, blade_j, ret_index >>
    /\ UNCHANGED algVars
    /\ UNCHANGED sessionVars

\* The index of the same product, computed after its sign.
CallOutputIndexAfterParity ==
    /\ pc = "parity"
    /\ ret_index' = _compute_output_index(blade_i, blade_j)
    /\ pc' = "resolved"
    /\ UNCHANGED << dim, blade_i, blade_j, ret_parity, ret_transpositions >>
    /\ UNCHANGED algVars
    /\ UNCHANGED sessionVars

NextBlade == CallOutputParity \/ CallOutputIndexAfterParity

SpecBlade == InitBlade /\ [][NextBlade]_vars

\* The object a chain of calls ended with, or the exception that stopped it.
Outcome(call) == IF call.err = None THEN call.objs[call.ret] ELSE [cls |-> call.err]

\* ------------------------------------------ product of two vectors of R^n
\* Coefficients the vectors are drawn from.
Coefs == {-1, 0, 2}

\* The vectors of the test of the product, a = (2, 3, 4.5) and b = (1, 1, 1),
\* with a in units of 1/2 so that the coefficients are integers.
TestVectorA == << 4, 6, 9 >>
TestVectorB == << 1, 1, 1 >>

InitVec ==
    /\ pc = "start"
    /\ dim \in 1..MaxN
    /\ \/ vec_a \in [1..dim -> Coefs] /\ vec_b \in [1..dim -> Coefs]
       \/ dim = Len(TestVectorA) /\ vec_a = TestVectorA /\ vec_b = TestVectorB
    /\ mv_a = None /\ mv_b = None /\ mv_c = None
    /\ scalar = None /\ lhs = None /\ rhs = None
    /\ NoBlade
    /\ NoSession

\* a = MultiVector.from_vector(vec_a); b = MultiVector.from_vector(vec_b)
FromVectors ==
    /\ pc = "start"
    /\ LET call_a == MultiVector_from_vector(<< >>, vec_a)
           call_b == MultiVector_from_vector(call_a.objs, vec_b)
       IN  /\ mv_a' = call_b.objs[call_a.ret]
           /\ mv_b' = call_b.objs[call_b.ret]
    /\ pc' = "from_vector"
    /\ UNCHANGED << dim, vec_a, vec_b, mv_c, scalar, lhs, rhs >>
    /\ UNCHANGED bladeVars
    /\ UNCHANGED sessionVars

\* c = a.geometric_product(b)
VectorProduct ==
    /\ pc = "from_vector"
    /\ LET call == MultiVector_geometric_product(<< mv_a, mv_b >>, 1, 2)
       IN  mv_c' = Outcome(call)
    /\ pc' = "geometric_product"
    /\ UNCHANGED << dim, vec_a, vec_b, mv_a, mv_b, scalar, lhs, rhs >>
    /\ UNCHANGED bladeVars
    /\ UNCHANGED sessionVars

NextVec == FromVectors \/ VectorProduct

SpecVec == InitVec /\ [][NextVec]_vars

\* ------------------------------------------------ algebra of multivectors
\* Scalars a multivector is scaled by.
Scalars == {-1, 0, 3}

\* The coefficient array of coef times the blade of index I in G_d.
Blade(d, I, coef) == [_get_zero_basis(d) EXCEPT ![I] = coef]

\* A coefficient array with no zero entry.
Ramp(d) == [I \in 0..(2 ^ d - 1) |-> I + 1]

\* A coefficient array with no zero entry and both signs.
Alternating(d) == [I \in 0..(2 ^ d - 1) |-> IF I % 2 = 0 THEN -(I + 2) ELSE I + 2]

\* Coefficient arrays of G_d: zero, the blades, and two dense ones.
Operands(d) ==
    {_get_zero_basis(d), Ramp(d), Alternating(d)}
        \cup {Blade(d, I, 1) : I \in 0..(2 ^ d - 1)}

\* Either three multivectors of Multivector.py, or two of GAlgebra_Jake.py in
\* the algebra GN(dim) (the first object of their heap).
InitAlg ==
    /\ pc = "start"
    /\ dim \in 1..MaxN
    /\ \/ /\ mv_a \in {MultiVector(x, dim) : x \in Operands(dim)}
          /\ mv_b \in {MultiVector(x, dim) : x \in Operands(dim)}
          /\ mv_c \in {MultiVector(x, dim) : x \in Operands(dim)}
       \/ /\ mv_a \in {[cls |-> "GA.MultiVector", gn |-> 1, values |-> x] :
                          x \in Operands(dim)}
          /\ mv_b \in {[cls |-> "GA.MultiVector", gn |-> 1, values |-> x] :
                          x \in Operands(dim)}
          /\ mv_c = None
    /\ vec_a = None /\ vec_b = None
    /\ scalar = None /\ lhs = None /\ rhs = None
    /\ NoBlade
    /\ NoSession

\* lhs = (a * s) * b; rhs = (a * b) * s      (GAlgebra_Jake.py)
ScaleLeft ==
    /\ pc = "start"
    /\ mv_a.cls = "GA.MultiVector"
    /\ \E s \in Scalars :
          LET heap == << GN_calls[dim], mv_a, mv_b >>
              scaled == GA_MultiVector_mul(heap, 2, s)
              left == GA_MultiVector_prod(scaled.objs, scaled.ret, 3)
              product == GA_MultiVector_prod(heap, 2, 3)
              right == GA_MultiVector_mul(product.objs, product.ret, s)
          IN  /\ scalar' = s
              /\ lhs' = Outcome(left)
              /\ rhs' = Outcome(right)
    /\ pc' = "scale_left"
    /\ UNCHANGED << dim, vec_a, vec_b, mv_a, mv_b, mv_c >>
    /\ UNCHANGED bladeVars
    /\ UNCHANGED sessionVars

\* lhs = a.add(b).geometric_product(c)
\* rhs = a.geometric_product(c).add(b.geometric_product(c))
AddLeft ==
    /\ pc = "start"
    /\ mv_a.cls = "MultiVector"
    /\ LET heap == << mv_a, mv_b, mv_c >>
           total == MultiVector_add(heap, 1, 2)
           left == MultiVector_geometric_product(total.objs, total.ret, 3)
           ac == MultiVector_geometric_product(heap, 1, 3)
           bc == MultiVector_geometric_product(ac.objs, 2, 3)
           right == MultiVector_add(bc.objs, ac.ret, bc.ret)
       IN  /\ lhs' = Outcome(left)
           /\ rhs' = Outcome(right)
    /\ pc' = "add_left"
    /\ UNCHANGED << dim, vec_a, vec_b, mv_a, mv_b, mv_c, scalar >>
    /\ UNCHANGED bladeVars
    /\ UNCHANGED sessionVars

\* lhs = a.geometric_product(b).geometric_product(c)
\* rhs = a.geometric_product(b.geometric_product(c))
Assoc ==
    /\ pc = "start"
    /\ mv_a.cls = "MultiVector"
    /\ LET heap == << mv_a, mv_b, mv_c >>
           ab == MultiVector_geometric_product(heap, 1, 2)
           left == MultiVector_geometric_product(ab.objs, ab.ret, 3)
           bc == MultiVector_geometric_product(heap, 2, 3)
           right == MultiVector_geometric_product(bc.objs, 1, bc.ret)
       IN  /\ lhs' = Outcome(left)
           /\ rhs' = Outcome(right)
    /\ pc' = "assoc"
    /\ UNCHANGED << dim, vec_a, vec_b, mv_a, mv_b, mv_c, scalar >>
    /\ UNCHANGED bladeVars
    /\ UNCHANGED sessionVars

NextAlg == ScaleLeft \/ AddLeft \/ Assoc

SpecAlg == InitAlg /\ [][NextAlg]_vars

\* ---------------------------------------------------------------- session
\* A program using the two modules: it constructs objects and calls their
\* methods on objects it holds, in any order.

\* np.array([...]) of a list: a 0-based array.
Array(list) == [i \in 0..(Len(list) - 1) |-> list[i + 1]]

\* Coefficient vectors handed to the constructors, of lengths 2, 3 and 4.
RawArrays == {Array(<< 1, 1 >>), Array(<< 0, 1, 1 >>), Array(<< 1, 0, 1, 1 >>)}

\* Dimensions handed to the constructors.
Dims == {1, 2}

\* Vectors handed to from_vector, the empty one among them.
Vectors == {<< >>, << 1, 1 >>}

\* The number a multivector is multiplied by.
Numbers == {-1}

Init ==
    /\ pc = "start"
    /\ objs = << >>
    /\ args = << >>
    /\ ret = None
    /\ err = None
    /\ dim = None
    /\ NoBlade
    /\ NoAlg

\* The coefficient array of a multivector of either class.
Coefficients(obj) == IF obj.cls = "MultiVector" THEN obj.basis_expansion ELSE obj.values

\* The references to the objects of a class; for the multivector classes,
\* those with coefficients within MaxCoef.
Refs(class) ==
    {o \in DOMAIN objs :
        /\ objs[o].cls = class
        /\ class # "GN" =>
               \A i \in DOMAIN Coefficients(objs[o]) :
                   Abs(Coefficients(objs[o])[i]) <= MaxCoef}

\* The call `call`, named `name` and made with `arguments`, takes place.
Do(call, name, arguments) ==
    /\ Len(call.objs) <= MaxObjs
    /\ pc' = name
    /\ args' = arguments
    /\ objs' = call.objs
    /\ ret' = call.ret
    /\ err' = call.err
    /\ UNCHANGED dim
    /\ UNCHANGED bladeVars
    /\ UNCHANGED algVars

\* MultiVector(basis_expansion, n)                         (Multivector.py)
NewMultiVector ==
    \E x \in RawArrays, k \in Dims :
        Do(MultiVector_init(objs, x, k), "MultiVector", << x, k >>)

\* MultiVector.from_vector(vector)
FromVector ==
    \E x \in Vectors :
        Do(MultiVector_from_vector(objs, x), "from_vector", << x >>)

\* x.add(y)
Add ==
    \E x \in Refs("MultiVector"), y \in Refs("MultiVector") :
        Do(MultiVector_add(objs, x, y), "add", << x, y >>)

\* x.geometric_product(y)
GeometricProduct ==
    \E x \in Refs("MultiVector"), y \in Refs("MultiVector") :
        Do(MultiVector_geometric_product(objs, x, y), "geometric_product", << x, y >>)

\* GN(n)                                                 (GAlgebra_Jake.py)
NewGN ==
    \E k \in Dims : Do(GN_init(objs, k), "GN", << k >>)

\* MultiVector(gn, values)
NewGAMultiVector ==
    \E g \in Refs("GN"), x \in RawArrays :
        Do(GA_MultiVector_init(objs, g, x), "GA.MultiVector", << g, x >>)

\* x * number
Mul ==
    \E x \in Refs("GA.MultiVector"), k \in Numbers :
        Do(GA_MultiVector_mul(objs, x, k), "mul", << x, k >>)

\* x.sum(y)
Sum ==
    \E x \in Refs("GA.MultiVector"), y \in Refs("GA.MultiVector") :
        Do(GA_MultiVector_sum(objs, x, y), "sum", << x, y >>)

\* x.prod(y)
Prod ==
    \E x \in Refs("GA.MultiVector"), y \in Refs("GA.MultiVector") :
        Do(GA_MultiVector_prod(objs, x, y), "prod", << x, y >>)

Next ==
    \/ NewMultiVector \/ FromVector \/ Add \/ GeometricProduct
    \/ NewGN \/ NewGAMultiVector \/ Mul \/ Sum \/ Prod

Spec == Init /\ [][Next]_vars

\* ================================================================ claims
\* Reference notions the claims are stated with (none of them is used by the
\* model of the code above).

\* The positions of the set bits of x among the w lowest.
SetBits(x, w) == {q \in 0..(w - 1) : (x \div (2 ^ q)) % 2 = 1}

\* The integer whose set bits are the positions in S (all below w).
ValueOfBits(S, w) ==
    LET f[q \in 0..w] ==
            IF q = 0 THEN 0
            ELSE f[q - 1] + (IF (q - 1) \in S THEN 2 ^ (q - 1) ELSE 0)
    IN  f[w]

\* i XOR j as the symmetric difference of the two sets of basis vectors.
XorOf(i, j, w) ==
    ValueOfBits((SetBits(i, w) \ SetBits(j, w)) \cup (SetBits(j, w) \ SetBits(i, w)), w)

\* The elements of a finite set of integers, in ascending order.
Ascending(S) ==
    LET f[T \in SUBSET S] ==
            IF T = {} THEN << >>
            ELSE LET m == CHOOSE x \in T : \A y \in T : x <= y
                 IN  << m >> \o f[T \ {m}]
    IN  f[S]

RECURSIVE AdjacentSwaps(_)
\* The number of swaps of an adjacent-swap sort: while some neighbour pair is
\* strictly out of order, swap the first such pair. Equal neighbours stay.
AdjacentSwaps(seq) ==
    IF \E k \in 1..(Len(seq) - 1) : seq[k] > seq[k + 1]
    THEN LET k == CHOOSE k1 \in 1..(Len(seq) - 1) :
                      /\ seq[k1] > seq[k1 + 1]
                      /\ \A k2 \in 1..(k1 - 1) : seq[k2] <= seq[k2 + 1]
         IN  1 + AdjacentSwaps([seq EXCEPT ![k] = seq[k + 1], ![k + 1] = seq[k]])
    ELSE 0

\* For each x of list2, the number of elements of list1 strictly greater, summed.
InsertionCount(list1, list2) ==
    Cardinality({pq \in (1..Len(list1)) \X (1..Len(list2)) : list1[pq[1]] > list2[pq[2]]})

\* C1: for every dimension n and blade indices i, j < 2^n,
\* _compute_output_index(i, j) is the bitwise XOR of i and j; it is 0 when
\* i = j, it is j when i = 0, and it lies in [0, 2^n).
C1_IndexIsXor ==
    pc = "index" =>
        /\ ret_index = XorOf(blade_i, blade_j, dim)
        /\ (blade_i = blade_j => ret_index = 0)
        /\ (blade_i = 0 => ret_index = blade_j)
        /\ ret_index \in 0..(2 ^ dim - 1)

\* C1 witness: a product whose index needs two bytes (269 XOR 11 = 262).
C1_Witness == pc = "index" /\ blade_i = 269 /\ blade_j = 11 /\ ret_index = 262

\* C2: the sign _compute_output_parity(i, j) is (-1)^T, T the number of swaps of
\* an adjacent-swap sort of the ascending labels of i followed by those of j;
\* the count of _compute_num_transpositions is the insertion count (for each x
\* of list 2 the elements of list 1 strictly greater) and has the parity of T.
C2_ParityIsSortParity ==
    pc \in {"parity", "resolved"} =>
        LET list1 == Ascending(SetBits(blade_i, dim))
            list2 == Ascending(SetBits(blade_j, dim))
            T == AdjacentSwaps(list1 \o list2)
        IN  /\ ret_parity = (IF T % 2 = 0 THEN 1 ELSE -1)
            /\ ret_transpositions = InsertionCount(list1, list2)
            /\ ret_transpositions % 2 = T % 2

\* C2 witness: the blades 13 = e1 e3 e4 and 11 = e1 e2 e4 share two labels; four
\* transpositions, sign +1.
C2_Witness ==
    /\ pc = "parity" /\ blade_i = 13 /\ blade_j = 11
    /\ ret_transpositions = 4 /\ ret_parity = 1

\* C4: whenever the product of two vectors a, b of R^n has been computed from
\* from_vector(a) and from_vector(b), its coefficient at index 0 is the dot
\* product of a and b, its coefficient at each index 2^p + 2^q (p < q) is
\* a[p]*b[q] - a[q]*b[p], and every other coefficient is 0.
C4_VectorProduct ==
    pc = "geometric_product" =>
        /\ mv_c.cls = "MultiVector"
        /\ mv_c.n = dim
        /\ DOMAIN mv_c.basis_expansion = 0..(2 ^ dim - 1)
        /\ \A I \in 0..(2 ^ dim - 1) :
              mv_c.basis_expansion[I] =
                  IF I = 0
                  THEN LET dot[k \in 0..dim] ==
                               IF k = 0 THEN 0 ELSE dot[k - 1] + vec_a[k] * vec_b[k]
                       IN  dot[dim]
                  ELSE IF Cardinality(SetBits(I, dim)) = 2
                  THEN LET p == CHOOSE x \in SetBits(I, dim) :
                                    \A y \in SetBits(I, dim) : x <= y
                           q == CHOOSE x \in SetBits(I, dim) : x # p
                       IN  vec_a[p + 1] * vec_b[q + 1] - vec_a[q + 1] * vec_b[p + 1]
                  ELSE 0

\* The product of the test, (2, 3, 4.5) by (1, 1, 1), in units of 1/2:
\* [9.5, 0, 0, -1, 0, -2.5, -1.5, 0] is [19, 0, 0, -2, 0, -5, -3, 0].
C4_Witness ==
    /\ pc = "geometric_product"
    /\ vec_a = << 4, 6, 9 >> /\ vec_b = << 1, 1, 1 >>
    /\ mv_c.basis_expansion =
           [I \in 0..7 |-> << 19, 0, 0, -2, 0, -5, -3, 0 >>[I + 1]]

\* C5: the product is linear in its left argument: (a * s) * b and (a * b) * s
\* have the same coefficients for every scalar s, and (a + b) * c equals
\* a * c + b * c, none of the calls raising.
C5_LeftLinear ==
    /\ pc = "scale_left" =>
          /\ lhs.cls = "GA.MultiVector" /\ rhs.cls = "GA.MultiVector"
          /\ lhs.values = rhs.values
    /\ pc = "add_left" =>
          /\ lhs.cls = "MultiVector" /\ rhs.cls = "MultiVector"
          /\ mv_eq(lhs, rhs)

\* Both halves of C5 on operands where they say something: a dense a scaled
\* by 3 in G_2, and e1e2 + e1 times e2 + ... in G_3 with a non-zero result.
C5_Witness ==
    \/ /\ pc = "scale_left" /\ dim = 2 /\ scalar = 3
       /\ mv_a.values = Ramp(2) /\ mv_b.values = Blade(2, 2, 1)
       /\ lhs.values # _get_zero_basis(2)
    \/ /\ pc = "add_left" /\ dim = 3
       /\ mv_a.basis_expansion = Alternating(3)
       /\ mv_b.basis_expansion = Ramp(3)
       /\ mv_c.basis_expansion = Blade(3, 6, 1)
       /\ lhs.basis_expansion # _get_zero_basis(3)

\* The index of the blade a multivector is, when it is one.
BladeIndexOf(mv) ==
    CHOOSE I \in 0..(2 ^ mv.n - 1) : mv.basis_expansion = Blade(mv.n, I, 1)

IsBlade(mv) ==
    \E I \in 0..(2 ^ mv.n - 1) : mv.basis_expansion = Blade(mv.n, I, 1)

\* C6: the product is associative, (a * b) * c = a * (b * c); and when a, b, c
\* are the blades of indices i, j, k,
\* sign(i, j) * sign(i XOR j, k) = sign(j, k) * sign(i, j XOR k).
C6_Associative ==
    pc = "assoc" =>
        /\ lhs.cls = "MultiVector" /\ rhs.cls = "MultiVector"
        /\ mv_eq(lhs, rhs)
        /\ (IsBlade(mv_a) /\ IsBlade(mv_b) /\ IsBlade(mv_c)) =>
              LET i == BladeIndexOf(mv_a)
                  j == BladeIndexOf(mv_b)
                  k == BladeIndexOf(mv_c)
              IN  _compute_output_parity(i, j)
                      * _compute_output_parity(XorOf(i, j, dim), k)
                  = _compute_output_parity(j, k)
                      * _compute_output_parity(i, XorOf(j, k, dim))

\* Three blades of G_3 whose pairwise products all change sign when swapped.
C6_Witness ==
    /\ pc = "assoc" /\ dim = 3
    /\ mv_a.basis_expansion = Blade(3, 3, 1)
    /\ mv_b.basis_expansion = Blade(3, 6, 1)
    /\ mv_c.basis_expansion = Blade(3, 5, 1)
    /\ lhs.basis_expansion = Blade(3, 0, -1)

\* The dimension n of a multivector held in a heap.
DimensionOf(heap, o) ==
    IF heap[o].cls = "MultiVector" THEN heap[o].n ELSE heap[heap[o].gn].n

MultivectorClasses == {"MultiVector", "GA.MultiVector"}

\* C3: for every algebra GN(n) that was built and every pair (i, j) of blade
\* indices, the entry where_m[i][j] decodes to the index and the sign the
\* direct functions compute: its magnitude is (close to) the index
\* _compute_output_index(i, j), epsilon standing for 0, and its sign is
\* _compute_output_parity(i, j).
C3_TableAgreesWithDirect ==
    \A o \in DOMAIN objs :
        objs[o].cls = "GN" =>
            \A i \in 0..(2 ^ objs[o].n - 1), j \in 0..(2 ^ objs[o].n - 1) :
                /\ isclose(objs[o].where_m[i][j], _compute_output_index(i, j))
                /\ np_sign(objs[o].where_m[i][j]) = _compute_output_parity(i, j)

\* C7: a call of add, geometric_product, sum or prod on two multivectors of
\* different dimensions raises, returns nothing and leaves every object as it
\* was.
C7_MismatchFails ==
    [][(/\ pc' \in {"add", "geometric_product", "sum", "prod"}
        /\ DimensionOf(objs, args'[1]) # DimensionOf(objs, args'[2]))
       => (/\ err' # None
           /\ ret' = None
           /\ objs' = objs)]_vars

\* add refused two multivectors whose arrays have the same length (numpy
\* would have added them) but whose dimensions differ.
C7_Witness ==
    /\ pc = "add"
    /\ err = "AssertionError"
    /\ ret = None
    /\ objs[args[1]].n # objs[args[2]].n
    /\ size(objs[args[1]].basis_expansion) = size(objs[args[2]].basis_expansion)

\* C8: a constructor handed a coefficient vector whose length is not 2^n
\* raises, and every multivector that exists has 2^n coefficients for its
\* dimension n.
C8_ShapeChecked ==
    /\ \A o \in DOMAIN objs :
          objs[o].cls \in MultivectorClasses =>
              size(Coefficients(objs[o])) = 2 ^ DimensionOf(objs, o)
    /\ (pc = "MultiVector" /\ size(args[1]) # 2 ^ args[2]) => err # None
    /\ (pc = "GA.MultiVector" /\ size(args[2]) # 2 ^ objs[args[1]].n) => err # None

\* C9: from_vector of the empty vector raises and returns nothing, and no
\* multivector of dimension 0 exists.
C9_EmptyVectorFails ==
    /\ (pc = "from_vector" /\ Len(args[1]) = 0) => (err # None /\ ret = None)
    /\ \A o \in DOMAIN objs : objs[o].cls = "MultiVector" => objs[o].n > 0

\* C10: no step changes an object that exists (a multivector's dimension and
\* coefficients, an algebra's where_m), and add, geometric_product, mul, sum
\* and prod return, when they return, a multivector that did not exist before.
C10_Immutable ==
    [][/\ \A o \in DOMAIN objs : o \in DOMAIN objs' /\ objs'[o] = objs[o]
       /\ (pc' \in {"add", "geometric_product", "mul", "sum", "prod"} /\ err' = None)
             => /\ ret' \notin DOMAIN objs
                /\ ret' \in DOMAIN objs'
                /\ objs'[ret'].cls \in MultivectorClasses]_vars

\* prod returned a fourth object next to the algebra GN(2) and its two
\* operands, the algebra still holding the table it was built with.
C10_Witness ==
    /\ pc = "prod"
    /\ err = None
    /\ args = << 2, 3 >>
    /\ ret = 4
    /\ objs[1].cls = "GN" /\ objs[1].n = 2
    /\ objs[1].where_m = GN_calls[2].where_m
    /\ objs[4].values # objs[2].values

====
